---- MODULE Spec2Model ----
(***************************************************************************)
(* Model of src/stock_mcp_server.py: the date codec parse_date and the     *)
(* tool handlers get_stock_data, plot_stock_price and compare_stocks, and  *)
(* the resource reader read_stock_resource.                                *)
(*                                                                         *)
(* Text is modelled as a sequence of one-character strings, so that the    *)
(* slicing date_str[:2], date_str[2:4], date_str[4:] and the conversion    *)
(* int(...) are computed position by position as Python computes them.     *)
(***************************************************************************)
EXTENDS Integers, Sequences, FiniteSets, TLC

VARIABLES
    strftime_pads_year, \* the build: does strftime('%Y') zero-pad years < 1000
    date_str,           \* the argument of the parse_date call under test
    parsed,             \* what that call did: not yet run, returned, raised
    call,               \* the tool invocation the dispatcher made last
    legs,               \* the get_stock_data invocations made by that handler
    fetches,            \* the upstream history fetches issued by that handler
    plotted,            \* what the plotting library did for that handler
    result,             \* the value the handler returned to the dispatcher
    propagated,         \* the exception that escaped the handler, or "none"
    figures,            \* number of figures the plotting library holds open
    info                \* what stock.info did for that handler

vars == <<strftime_pads_year, date_str, parsed, call, legs, fetches, plotted,
          result, propagated, figures, info>>

parseVars == <<date_str, parsed>>
serverVars == <<call, legs, fetches, plotted, result, propagated, figures, info>>

(***************************************************************************)
(* Characters and Python's int(str)                                        *)
(***************************************************************************)
DigitChars == <<"0", "1", "2", "3", "4", "5", "6", "7", "8", "9">>

Digits == {"0", "1", "2", "3", "4", "5", "6", "7", "8", "9"}

IsDigit(c) == c \in Digits

DigitVal(c) ==
    CASE c = "0" -> 0 [] c = "1" -> 1 [] c = "2" -> 2 [] c = "3" -> 3 [] c = "4" -> 4
      [] c = "5" -> 5 [] c = "6" -> 6 [] c = "7" -> 7 [] c = "8" -> 8 [] c = "9" -> 9

IsSpace(c) == c = " "

Min(a, b) == IF a <= b THEN a ELSE b

Max(a, b) == IF a >= b THEN a ELSE b

\* Python's s[a:b] for 0 <= a <= b: both ends are clamped to the length.
Slice(s, a, b) == SubSeq(s, Min(a, Len(s)) + 1, Min(b, Len(s)))

\* Python's s[a:].
SliceFrom(s, a) == SubSeq(s, Min(a, Len(s)) + 1, Len(s))

RECURSIVE LStrip(_)
LStrip(s) ==
    IF s # <<>> /\ IsSpace(Head(s)) THEN LStrip(Tail(s)) ELSE s

RECURSIVE RStrip(_)
RStrip(s) ==
    IF s # <<>> /\ IsSpace(s[Len(s)]) THEN RStrip(SubSeq(s, 1, Len(s) - 1)) ELSE s

\* int() accepts digits separated by single underscores: the literal starts
\* and ends with a digit and holds no two underscores in a row.
IsIntLiteral(s) ==
    /\ s # <<>>
    /\ IsDigit(s[1])
    /\ IsDigit(s[Len(s)])
    /\ \A i \in 1..Len(s) : IsDigit(s[i]) \/ s[i] = "_"
    /\ \A i \in 1..(Len(s) - 1) : ~(s[i] = "_" /\ s[i + 1] = "_")

RECURSIVE DropLeadingZeros(_)
DropLeadingZeros(s) ==
    IF Len(s) > 1 /\ Head(s) = "0" THEN DropLeadingZeros(Tail(s)) ELSE s

\* The number written by the first n digits of s.
RECURSIVE DigitsPrefix(_, _)
DigitsPrefix(s, n) ==
    IF n = 0 THEN 0 ELSE DigitsPrefix(s, n - 1) * 10 + DigitVal(s[n])

DigitsValue(s) == DigitsPrefix(s, Len(s))

\* Does the magnitude written by the digits sig (no leading zeros) fit a C int:
\* datetime's arguments are converted to C int before their ranges are checked.
\* The largest C int is 2^31 - 1 = 2147483647, the smallest -2^31.
FitsCInt(sig, neg) ==
    \/ Len(sig) <= 9
    \/ /\ Len(sig) = 10
       /\ LET head == DigitsValue(SubSeq(sig, 1, 9))
              last == DigitVal(sig[10])
          IN  \/ head < 214748364
              \/ head = 214748364 /\ last <= (IF neg THEN 8 ELSE 7)

\* The value of an int literal without its sign.  A magnitude of ten digits
\* or more is kept as 10^9: every range it is compared with ends far below it.
IntOfDigits(sig, neg) ==
    [ok |-> TRUE,
     val |-> IF Len(sig) > 9 THEN (IF neg THEN -1000000000 ELSE 1000000000)
             ELSE IF neg THEN 0 - DigitsValue(sig) ELSE DigitsValue(sig),
     fits |-> FitsCInt(sig, neg)]

IntOfBody(body, neg) ==
    IF IsIntLiteral(body)
    THEN IntOfDigits(DropLeadingZeros(SelectSeq(body, IsDigit)), neg)
    ELSE [ok |-> FALSE, val |-> 0, fits |-> TRUE]

IntOfStripped(t) ==
    IF t # <<>> /\ t[1] \in {"+", "-"}
    THEN IntOfBody(Tail(t), t[1] = "-")
    ELSE IntOfBody(t, FALSE)

\* int(s): [ok |-> FALSE] when int raises ValueError, and else the integer val
\* together with whether it fits a C int.  Surrounding whitespace is dropped,
\* one sign is allowed.
PyInt(s) == IntOfStripped(RStrip(LStrip(s)))

(***************************************************************************)
(* datetime(year, month, day) and strftime('%Y-%m-%d')                     *)
(***************************************************************************)
IsLeap(y) == (y % 4 = 0 /\ y % 100 # 0) \/ y % 400 = 0

DaysInMonth(y, m) ==
    IF m = 2 THEN (IF IsLeap(y) THEN 29 ELSE 28)
    ELSE IF m \in {4, 6, 9, 11} THEN 30 ELSE 31

\* The date constructor's range check (it raises ValueError outside it).
\* Years run from MINYEAR = 1 to MAXYEAR = 9999.
DateInRange(y, m, d) ==
    /\ 1 <= y /\ y <= 9999
    /\ 1 <= m /\ m <= 12
    /\ 1 <= d /\ d <= DaysInMonth(y, m)

\* The decimal digits of n >= 0.
RECURSIVE Decimal(_)
Decimal(n) ==
    IF n < 10 THEN <<DigitChars[n + 1]>>
    ELSE Decimal(n \div 10) \o <<DigitChars[(n % 10) + 1]>>

RECURSIVE ZeroPad(_, _)
ZeroPad(s, w) == IF Len(s) >= w THEN s ELSE ZeroPad(<<"0">> \o s, w)

\* %Y: the C library's strftime writes the year; glibc does not pad a year
\* below 1000 to four digits, other C libraries do.
FormatYear(y) ==
    IF strftime_pads_year THEN ZeroPad(Decimal(y), 4) ELSE Decimal(y)

\* dt.strftime('%Y-%m-%d')
Strftime(y, m, d) ==
    FormatYear(y) \o <<"-">> \o ZeroPad(Decimal(m), 2) \o <<"-">> \o ZeroPad(Decimal(d), 2)

(***************************************************************************)
(* parse_date                                                              *)
(***************************************************************************)
\* A text with a hole is kept as its format and what fills the hole.
\* How a call ended: it returned value, or raised exc with the message value.
Returned(v) == [kind |-> "return", exc |-> "none", value |-> v]

Raised(e, v) == [kind |-> "raise", exc |-> e, value |-> v]

\* The message of the ValueError parse_date raises: it carries date_str.
InvalidDateMsg(s) ==
    [fmt |-> "Invalid date format: {}. Expected mmddyyyy format.", with |-> s]

\* datetime(year, month, day).strftime('%Y-%m-%d') on the three converted
\* segments: int raised ValueError, or a value does not fit a C int, or the
\* date is out of range, or the date is formatted.
DatetimeStrftime(year, month, day) ==
    IF ~year.ok \/ ~month.ok \/ ~day.ok
    THEN Raised("ValueError", [fmt |-> "invalid literal for int()", with |-> <<>>])
    ELSE IF ~year.fits \/ ~month.fits \/ ~day.fits
    THEN Raised("OverflowError",
                [fmt |-> "signed integer is greater than maximum", with |-> <<>>])
    ELSE IF ~DateInRange(year.val, month.val, day.val)
    THEN Raised("ValueError",
                [fmt |-> "day, month or year is out of range", with |-> <<>>])
    ELSE Returned(Strftime(year.val, month.val, day.val))

\* parse_date that rearranges the segments without building a datetime.
ParseDateTryUnvalidated(s) ==
    Returned(SliceFrom(s, 4) \o <<"-">> \o Slice(s, 0, 2) \o <<"-">> \o Slice(s, 2, 4))

\* The body of parse_date's try block: what it returns or raises.
ParseDateTry(s) ==
    DatetimeStrftime(PyInt(SliceFrom(s, 4)), PyInt(Slice(s, 0, 2)), PyInt(Slice(s, 2, 4)))

\* except (ValueError, IndexError): the exceptions parse_date converts.
ParseDateCatches(e) == e \in {"ValueError", "IndexError"}

\* parse_date's except clause applied to how its try block ended.
ParseDateExcept(r, s) ==
    IF r.kind = "raise" /\ ParseDateCatches(r.exc)
    THEN Raised("ValueError", InvalidDateMsg(s))
    ELSE r

parse_date(s) == ParseDateExcept(ParseDateTry(s), s)

(***************************************************************************)
(* The date codec on its own: one parse_date call on a token               *)
(***************************************************************************)
MonthSegs ==
    { <<"0", "1">>, <<"0", "2">>, <<"0", "4">>, <<"1", "2">>, <<"1", "3">>,
      <<"0", "0">>, <<" ", "1">>, <<"+", "1">>, <<"a", "b">> }

DaySegs ==
    { <<"0", "1">>, <<"2", "8">>, <<"2", "9">>, <<"3", "0">>, <<"3", "1">>,
      <<"3", "2">>, <<"0", "0">>, <<"1", " ">>, <<"+", "9">>, <<"c", "1">> }

YearSegs ==
    { <<"2", "0", "2", "4">>, <<"2", "0", "2", "3">>, <<"1", "9", "0", "0">>,
      <<"2", "0", "0", "0">>, <<"0", "9", "9", "9">>, <<"0", "0", "0", "1">>,
      <<"0", "0", "0", "0">>, <<"9", "9", "9", "9">>, <<"1", "0", "0", "0">>,
      <<"2", "4">>, <<"2", "0", "2">>, <<>>, <<"2", "0", "2", "4", "5">>,
      <<"+", "0", "2", "4">>, <<"2", "_", "2", "4">>, <<" ", "9", "9", "9">>,
      <<"2", "0", "a", "4">>, <<"-", "0", "0", "1">>, <<"2", "_", "_", "4">>,
      <<"2", "1", "4", "7", "4", "8", "3", "6", "4", "7">>,
      <<"2", "1", "4", "7", "4", "8", "3", "6", "4", "8">>,
      <<"9", "9", "9", "9", "9", "9", "9", "9", "9", "9", "9">> }

\* Tokens too short to hold a day or a year segment.
ShortTokens == { <<>>, <<"0">>, <<"0", "1">>, <<"0", "1", "0">> }

Tokens ==
    { m \o d \o y : m \in MonthSegs, d \in DaySegs, y \in YearSegs } \cup ShortTokens

Pending == [kind |-> "pending", exc |-> "none", value |-> <<>>]

NoCall == [op |-> "none"]

NoResult == [pending |-> TRUE]

\* stock.info has not been read.
NotRead == [kind |-> "unread"]

ServerIdle ==
    /\ call = NoCall
    /\ legs = <<>>
    /\ fetches = <<>>
    /\ plotted = "unreached"
    /\ result = NoResult
    /\ propagated = "none"
    /\ figures = 0
    /\ info = NotRead

InitParseDate ==
    /\ strftime_pads_year \in BOOLEAN
    /\ date_str \in Tokens
    /\ parsed = Pending
    /\ ServerIdle

ParseDateCall ==
    /\ parsed = Pending
    /\ parsed' = parse_date(date_str)
    /\ UNCHANGED <<strftime_pads_year, date_str, serverVars>>

NextParseDate == ParseDateCall

SpecParseDate == InitParseDate /\ [][NextParseDate]_vars

(***************************************************************************)
(* Claims about parse_date, checked under SpecParseDate.  The calendar     *)
(* below is the claims' own: it is not the one the model of the code uses. *)
(***************************************************************************)
ParseDateRan == parsed.kind # "pending"

AllDigits(s) == \A i \in 1..Len(s) : IsDigit(s[i])

EightDigits(s) == Len(s) = 8 /\ AllDigits(s)

TokenMonth(s) == DigitsValue(SubSeq(s, 1, 2))

TokenDay(s) == DigitsValue(SubSeq(s, 3, 4))

TokenYear(s) == DigitsValue(SubSeq(s, 5, 8))

LeapYear(y) == IF y % 100 = 0 THEN y % 400 = 0 ELSE y % 4 = 0

MonthLength(y, m) ==
    CASE m \in {1, 3, 5, 7, 8, 10, 12} -> 31
      [] m \in {4, 6, 9, 11} -> 30
      [] m = 2 -> IF LeapYear(y) THEN 29 ELSE 28
      [] OTHER -> 0

\* Month 1-12 and a day of that month in that year.
RealMonthDay(s) ==
    /\ TokenMonth(s) \in 1..12
    /\ TokenDay(s) \in 1..MonthLength(TokenYear(s), TokenMonth(s))

\* YYYY-MM-DD of an 8-digit token MMDDYYYY: its own characters, rearranged.
IsoForm(s) == SubSeq(s, 5, 8) \o <<"-">> \o SubSeq(s, 1, 2) \o <<"-">> \o SubSeq(s, 3, 4)

RaisedInvalidDate(r, s) ==
    /\ r.kind = "raise"
    /\ r.exc = "ValueError"
    /\ r.value = InvalidDateMsg(s)

\* C1: every 8-digit token MMDDYYYY that denotes a real calendar date (years
\* from 1 on) makes parse_date return exactly YYYY-MM-DD of the same year,
\* month and day, and raise nothing.
C1_ValidTokenReturnsIso ==
    (ParseDateRan /\ EightDigits(date_str) /\ RealMonthDay(date_str)
        /\ TokenYear(date_str) >= 1)
    => (parsed.kind = "return" /\ parsed.value = IsoForm(date_str))

\* C1, restricted to the years strftime writes with four digits on every
\* build: from year 1000 on the round trip holds.
ValidTokenFrom1000ReturnsIso ==
    (ParseDateRan /\ EightDigits(date_str) /\ RealMonthDay(date_str)
        /\ TokenYear(date_str) >= 1000)
    => (parsed.kind = "return" /\ parsed.value = IsoForm(date_str))

\* C2: every 8-digit token whose month is outside 1-12 or whose day is no day
\* of that month in that year makes parse_date raise the invalid-date error
\* carrying the token, and return no string.
C2_BadMonthOrDayRaises ==
    (ParseDateRan /\ EightDigits(date_str) /\ ~RealMonthDay(date_str))
    => RaisedInvalidDate(parsed, date_str)

\* C2's case: Feb 29 of the non-leap year 2023 was parsed and refused.
C2_Witness ==
    /\ date_str = <<"0", "2", "2", "9", "2", "0", "2", "3">>
    /\ RaisedInvalidDate(parsed, date_str)

\* C3: every token whose length is not exactly 8 makes parse_date raise the
\* invalid-date error; it never returns a date string.
C3_WrongLengthRaises ==
    (ParseDateRan /\ Len(date_str) # 8) => RaisedInvalidDate(parsed, date_str)

\* C4: every token with a character other than an ASCII digit in its month,
\* day or year segment makes parse_date raise the invalid-date error.
C4_NonDigitRaises ==
    (ParseDateRan /\ ~AllDigits(date_str)) => RaisedInvalidDate(parsed, date_str)

\* C5: the only failure parse_date raises is the invalid-date ValueError; no
\* other exception kind escapes it.
C5_OnlyInvalidDateError ==
    (ParseDateRan /\ parsed.kind = "raise") => RaisedInvalidDate(parsed, date_str)

(***************************************************************************)
(* Numbers of the statistics.  A price of the series is an integer number  *)
(* of thousandths; a statistic rounded to 2 decimals is a float value in   *)
(* hundredths: finite, infinite or not-a-number, as IEEE division gives.   *)
(***************************************************************************)
Fin(v) == [k |-> "fin", v |-> v]

Inf(sign) == [k |-> "inf", v |-> sign]

NaN == [k |-> "nan", v |-> 0]

\* num / den for den > 0, rounded to the nearest integer, ties to even.
RoundHalfEven(num, den) ==
    LET q == num \div den
        r == num % den
    IN  IF 2 * r < den THEN q
        ELSE IF 2 * r > den THEN q + 1
        ELSE IF q % 2 = 0 THEN q ELSE q + 1

\* round(x, 2) of a price x given in thousandths: hundredths.
Round2(x) == Fin(RoundHalfEven(x, 10))

\* round(((close / open) - 1) * 100, 2): hundredths of a percent.  The prices
\* are numpy floats: a division by zero raises nothing, it gives inf or nan.
PercentageChange(close, open) ==
    IF open = 0
    THEN (IF close > 0 THEN Inf(1) ELSE IF close < 0 THEN Inf(-1) ELSE NaN)
    ELSE IF open > 0 THEN Fin(RoundHalfEven((close - open) * 10000, open))
    ELSE Fin(RoundHalfEven((open - close) * 10000, 0 - open))

\* a > b on floats: every comparison with nan is false.
FloatGt(a, b) ==
    /\ a.k # "nan" /\ b.k # "nan"
    /\ \/ a.k = "fin" /\ b.k = "fin" /\ a.v > b.v
       \/ a.k = "inf" /\ a.v = 1 /\ ~(b.k = "inf" /\ b.v = 1)
       \/ b.k = "inf" /\ b.v = -1 /\ ~(a.k = "inf" /\ a.v = -1)

\* round(a - b, 2) on floats that hold hundredths.
FloatSubRound2(a, b) ==
    IF a.k = "nan" \/ b.k = "nan" THEN NaN
    ELSE IF a.k = "fin" /\ b.k = "fin" THEN Fin(a.v - b.v)
    ELSE IF a.k = "inf" /\ b.k = "inf" THEN (IF a.v = b.v THEN NaN ELSE a)
    ELSE IF a.k = "inf" THEN a
    ELSE Inf(0 - b.v)

RECURSIVE SeqSum(_)
SeqSum(s) == IF s = <<>> THEN 0 ELSE Head(s) + SeqSum(Tail(s))

RECURSIVE SeqMax(_)
SeqMax(s) == IF Len(s) = 1 THEN s[1] ELSE Max(Head(s), SeqMax(Tail(s)))

RECURSIVE SeqMin(_)
SeqMin(s) == IF Len(s) = 1 THEN s[1] ELSE Min(Head(s), SeqMin(Tail(s)))

Column(data, f) == [i \in 1..Len(data) |-> data[i][f]]

(***************************************************************************)
(* get_stock_data                                                          *)
(***************************************************************************)
\* The exception classes of the model; each is a subclass of Exception.
ExceptionClasses ==
    {"ValueError", "IndexError", "OverflowError", "UpstreamError", "RenderError"}

\* except ValueError as e: a narrower except clause.
HandlerCatchesValueError(e) == e = "ValueError"

\* except Exception as e: what the handlers' except clauses catch.
HandlerCatches(e) == e \in ExceptionClasses

NoDataMsg(ticker) ==
    [fmt |-> "No data found for ticker {} in the specified date range", with |-> ticker]

FailedToFetchMsg(m) == [fmt |-> "Failed to fetch data: {}", with |-> m]

\* The no-data dictionary with the ticker in the place of the name.
NoDataResultTickerAsName(ticker, name) ==
    [error |-> NoDataMsg(ticker), ticker |-> ticker, name |-> ticker]

\* The dictionary returned for an empty series.
NoDataResult(ticker, name) ==
    [error |-> NoDataMsg(ticker), ticker |-> ticker, name |-> name]

\* The dictionary returned for a caught exception with the message m.
FailedResult(m, ticker, name) ==
    [error |-> FailedToFetchMsg(m), ticker |-> ticker, name |-> name]

\* The stats dictionary of a non-empty series.
Stats(ticker, name, start_formatted, end_formatted, data) ==
    LET first == data[1]
        last  == data[Len(data)]
    IN  [ticker |-> ticker,
         name |-> name,
         start_date |-> start_formatted,
         end_date |-> end_formatted,
         data_points |-> Len(data),
         opening_price |-> Round2(first.open),
         closing_price |-> Round2(last.close),
         highest_price |-> Round2(SeqMax(Column(data, "high"))),
         lowest_price |-> Round2(SeqMin(Column(data, "low"))),
         average_price |->
             Fin(RoundHalfEven(SeqSum(Column(data, "close")), 10 * Len(data))),
         price_change |-> Round2(last.close - first.open),
         percentage_change |-> PercentageChange(last.close, first.open),
         average_volume |-> SeqSum(Column(data, "volume")) \div Len(data)]

\* stock.history(start=..., end=...): the fetch as issued and what came back,
\* for the record.
Fetch(ticker, start_formatted, end_formatted, h) ==
    [ticker |-> ticker, start |-> start_formatted, end |-> end_formatted,
     outcome |-> h]

\* The try block of get_stock_data.  sf and ef are what its two parse_date
\* calls did on start_date and end_date; h is what the upstream history fetch
\* does if it is reached (a series, possibly empty, or an exception).  out is
\* how the block ends, fetches the upstream fetches it issued.
GetStockDataTry(ticker, name, sf, ef, h) ==
    IF sf.kind = "raise" THEN [out |-> sf, fetches |-> <<>>]
    ELSE IF ef.kind = "raise" THEN [out |-> ef, fetches |-> <<>>]
    ELSE IF h.kind = "raise"
    THEN [out |-> Raised("UpstreamError", h.msg),
          fetches |-> <<Fetch(ticker, sf.value, ef.value, h)>>]
    ELSE IF h.data = <<>>
    THEN [out |-> Returned(NoDataResult(ticker, name)),
          fetches |-> <<Fetch(ticker, sf.value, ef.value, h)>>]
    ELSE [out |-> Returned(Stats(ticker, name, sf.value, ef.value, h.data)),
          fetches |-> <<Fetch(ticker, sf.value, ef.value, h)>>]

\* get_stock_data's except clause applied to how its try block ended.
GetStockDataExcept(t, ticker, name) ==
    IF t.out.kind = "raise" /\ HandlerCatches(t.out.exc)
    THEN [out |-> Returned(FailedResult(t.out.value, ticker, name)),
          fetches |-> t.fetches]
    ELSE t

get_stock_data(ticker, name, sf, ef, h) ==
    GetStockDataExcept(GetStockDataTry(ticker, name, sf, ef, h), ticker, name)

(***************************************************************************)
(* plot_stock_price                                                        *)
(***************************************************************************)
FailedToPlotMsg(m) == [fmt |-> "Failed to create plot: {}", with |-> m]

\* f"data:image/png;base64,{plot_base64}": the encoded image is not modelled
\* beyond being the base64 text of a PNG.
DataUri == [fmt |-> "data:image/png;base64,{}", with |-> "base64 of the PNG"]

RenderErrorMsg == [fmt |-> "the plotting library raised", with |-> <<>>]

\* How a plot_stock_price block ends: out, the fetches issued, what the
\* plotting library did, and the number of figures the block opened and closed.
PlotEnd(out, fetches_, render, opened, closed) ==
    [out |-> out, fetches |-> fetches_, render |-> render,
     opened |-> opened, closed |-> closed]

\* The plotting part of the try block, from plt.figure to the return.  render
\* is "ok", "figure_raises" (plt.figure itself raises: no figure exists) or
\* "draw_raises" (a call between plt.figure and plt.close raises).
PlotRender(fetched, render) ==
    IF render = "figure_raises"
    THEN PlotEnd(Raised("RenderError", RenderErrorMsg), fetched, render, 0, 0)
    ELSE IF render = "draw_raises"
    THEN PlotEnd(Raised("RenderError", RenderErrorMsg), fetched, render, 1, 0)
    ELSE PlotEnd(Returned(DataUri), fetched, render, 1, 1)

\* The try block of plot_stock_price.  sf and ef are what its two parse_date
\* calls did, h what the upstream fetch does if it is reached.
PlotStockPriceTry(ticker, name, sf, ef, h, render) ==
    IF sf.kind = "raise" THEN PlotEnd(sf, <<>>, "unreached", 0, 0)
    ELSE IF ef.kind = "raise" THEN PlotEnd(ef, <<>>, "unreached", 0, 0)
    ELSE IF h.kind = "raise"
    THEN PlotEnd(Raised("UpstreamError", h.msg),
                 <<Fetch(ticker, sf.value, ef.value, h)>>, "unreached", 0, 0)
    ELSE IF h.data = <<>>
    THEN PlotEnd(Returned(NoDataMsg(ticker)),
                 <<Fetch(ticker, sf.value, ef.value, h)>>, "unreached", 0, 0)
    ELSE PlotRender(<<Fetch(ticker, sf.value, ef.value, h)>>, render)

\* An except clause that returns str(e) alone, without the prefix.
PlotStockPriceExceptBareMessage(t) ==
    IF t.out.kind = "raise" /\ HandlerCatches(t.out.exc)
    THEN [t EXCEPT !.out = Returned(t.out.value)]
    ELSE t

\* plot_stock_price's except clause applied to how its try block ended.
PlotStockPriceExcept(t) ==
    IF t.out.kind = "raise" /\ HandlerCatches(t.out.exc)
    THEN [t EXCEPT !.out = Returned(FailedToPlotMsg(t.out.value))]
    ELSE t

plot_stock_price(ticker, name, sf, ef, h, render) ==
    PlotStockPriceExcept(PlotStockPriceTry(ticker, name, sf, ef, h, render))

(***************************************************************************)
(* compare_stocks                                                          *)
(***************************************************************************)
NoErrorMsg == [fmt |-> "No error", with |-> <<>>]

OneOrBothFailedMsg == [fmt |-> "Failed to get data for one or both stocks", with |-> <<>>]

ComparisonFailedMsg(m) == [fmt |-> "Comparison failed: {}", with |-> m]

HasKey(d, key) == key \in DOMAIN d

\* d.get(key, default)
DictGet(d, key, default) == IF key \in DOMAIN d THEN d[key] ELSE default

\* One get_stock_data invocation made by compare_stocks and how it ended.
Leg(ticker, name, r) == [ticker |-> ticker, name |-> name, out |-> r.out]

\* How a compare_stocks block ends: out, the get_stock_data invocations made
\* and the upstream fetches issued.
CompareEnd(out, legs_, fetches_) == [out |-> out, legs |-> legs_, fetches |-> fetches_]

\* The winner decided with >= in the place of >: a tie goes to ticker1.
VerdictTieToFirst(ticker1, ticker2, p1, p2) ==
    IF FloatGt(p1, p2) \/ p1 = p2
    THEN [better_performer |-> ticker1,
          performance_difference |-> FloatSubRound2(p1, p2)]
    ELSE [better_performer |-> ticker2,
          performance_difference |-> FloatSubRound2(p2, p1)]

\* The winner and the gap, from the two percentage changes.
Verdict(ticker1, ticker2, p1, p2) ==
    IF FloatGt(p1, p2)
    THEN [better_performer |-> ticker1,
          performance_difference |-> FloatSubRound2(p1, p2)]
    ELSE [better_performer |-> ticker2,
          performance_difference |-> FloatSubRound2(p2, p1)]

\* The comparison dictionary built from two stats dictionaries.
Comparison(ticker1, ticker2, d1, d2, period) ==
    [comparison_period |-> period,
     stock1 |-> [ticker |-> ticker1,
                 percentage_change |-> d1.percentage_change,
                 price_change |-> d1.price_change,
                 final_price |-> d1.closing_price],
     stock2 |-> [ticker |-> ticker2,
                 percentage_change |-> d2.percentage_change,
                 price_change |-> d2.price_change,
                 final_price |-> d2.closing_price]]
        @@ Verdict(ticker1, ticker2, d1.percentage_change, d2.percentage_change)

\* The combined error that also hands out the first leg's dictionary.
CombinedErrorWithStock1(d1, d2) ==
    [error |-> OneOrBothFailedMsg,
     stock1_error |-> DictGet(d1, "error", NoErrorMsg),
     stock2_error |-> DictGet(d2, "error", NoErrorMsg),
     stock1 |-> d1]

\* The dictionary returned when a leg's dictionary holds the key error.
CombinedError(d1, d2) ==
    [error |-> OneOrBothFailedMsg,
     stock1_error |-> DictGet(d1, "error", NoErrorMsg),
     stock2_error |-> DictGet(d2, "error", NoErrorMsg)]

\* The try block from the error check on: d1 and d2 are the dictionaries the
\* two legs returned, ps and pe the two parse_date calls of the period text.
CompareDicts(ticker1, ticker2, d1, d2, ps, pe) ==
    IF HasKey(d1, "error") \/ HasKey(d2, "error")
    THEN Returned(CombinedError(d1, d2))
    ELSE IF ps.kind = "raise" THEN ps
    ELSE IF pe.kind = "raise" THEN pe
    ELSE Returned(Comparison(ticker1, ticker2, d1, d2,
                             [fmt |-> "{} to {}", with |-> <<ps.value, pe.value>>]))

\* compare_stocks that returns as soon as the first leg holds an error, before
\* the second get_stock_data call.
CompareLegsStopAtFirstError(ticker1, ticker2, r1, r2, ps, pe) ==
    IF r1.out.kind = "return" /\ HasKey(r1.out.value, "error")
    THEN CompareEnd(Returned([error |-> OneOrBothFailedMsg,
                              stock1_error |-> r1.out.value.error,
                              stock2_error |-> NoErrorMsg]),
                    <<Leg(ticker1, ticker1, r1)>>, r1.fetches)
    ELSE CompareEnd(CompareDicts(ticker1, ticker2, r1.out.value, r2.out.value, ps, pe),
                    <<Leg(ticker1, ticker1, r1), Leg(ticker2, ticker2, r2)>>,
                    r1.fetches \o r2.fetches)

\* The try block of compare_stocks on the outcomes r1, r2 of its two awaited
\* get_stock_data calls: an exception out of the first ends the block before
\* the second is made.
CompareLegs(ticker1, ticker2, r1, r2, ps, pe) ==
    IF r1.out.kind = "raise"
    THEN CompareEnd(r1.out, <<Leg(ticker1, ticker1, r1)>>, r1.fetches)
    ELSE IF r2.out.kind = "raise"
    THEN CompareEnd(r2.out, <<Leg(ticker1, ticker1, r1), Leg(ticker2, ticker2, r2)>>,
                    r1.fetches \o r2.fetches)
    ELSE CompareEnd(CompareDicts(ticker1, ticker2, r1.out.value, r2.out.value, ps, pe),
                    <<Leg(ticker1, ticker1, r1), Leg(ticker2, ticker2, r2)>>,
                    r1.fetches \o r2.fetches)

\* sf, ef: what parse_date does on start_date and end_date, in the legs and
\* for the period text alike.  h1, h2: what the upstream fetch of each leg
\* does if it is reached.
CompareStocksTry(ticker1, ticker2, sf, ef, h1, h2) ==
    CompareLegs(ticker1, ticker2,
                get_stock_data(ticker1, ticker1, sf, ef, h1),
                get_stock_data(ticker2, ticker2, sf, ef, h2),
                sf, ef)

\* compare_stocks's except clause applied to how its try block ended.
CompareStocksExcept(t) ==
    IF t.out.kind = "raise" /\ HandlerCatches(t.out.exc)
    THEN [t EXCEPT !.out = Returned([error |-> ComparisonFailedMsg(t.out.value)])]
    ELSE t

compare_stocks(ticker1, ticker2, sf, ef, h1, h2) ==
    CompareStocksExcept(CompareStocksTry(ticker1, ticker2, sf, ef, h1, h2))

(***************************************************************************)
(* read_stock_resource                                                     *)
(*                                                                         *)
(* stock.info is a dictionary; its values are texts (str) or whole numbers *)
(* (int).  An f-string field {x} writes str(x); the field {x:,} calls      *)
(* format(x, ','), which groups the digits of a number in threes and       *)
(* raises ValueError for a str.                                            *)
(***************************************************************************)
PyStrValue(s) == [t |-> "str", v |-> s]

PyIntValue(n) == [t |-> "int", v |-> n]

\* The default of every info.get(key, 'N/A').
NotAvailable == PyStrValue(<<"N", "/", "A">>)

\* info.get(key, 'N/A')
InfoGet(d, key) == IF key \in DOMAIN d THEN d[key] ELSE NotAvailable

\* str(x), the text an f-string field {x} writes.
PyStr(x) == IF x.t = "int" THEN Decimal(x.v) ELSE x.v

\* The digits of a number with a comma before every group of three.
RECURSIVE GroupThousands(_)
GroupThousands(s) ==
    IF Len(s) <= 3 THEN s
    ELSE GroupThousands(SubSeq(s, 1, Len(s) - 3)) \o <<",">>
             \o SubSeq(s, Len(s) - 2, Len(s))

CommaWithStrMsg == [fmt |-> "Cannot specify ',' with 's'.", with |-> <<>>]

\* format(x, ','), the text an f-string field {x:,} writes.
FormatComma(x) ==
    IF x.t = "int" THEN Returned(GroupThousands(Decimal(x.v)))
    ELSE Raised("ValueError", CommaWithStrMsg)

\* The f-string of the try block with the market-cap field formatted as cap.
StockInformation(ticker, d, cap) ==
    [fmt |-> "Stock Information for {}: Company Name: {} Sector: {} Industry: {} Current Price: ${} Market Cap: ${} 52 Week High: ${} 52 Week Low: ${}",
     with |-> [ticker |-> ticker,
               company_name |-> PyStr(InfoGet(d, "longName")),
               sector |-> PyStr(InfoGet(d, "sector")),
               industry |-> PyStr(InfoGet(d, "industry")),
               current_price |-> PyStr(InfoGet(d, "currentPrice")),
               market_cap |-> cap,
               week52_high |-> PyStr(InfoGet(d, "fiftyTwoWeekHigh")),
               week52_low |-> PyStr(InfoGet(d, "fiftyTwoWeekLow"))]]

\* The return statement on the dictionary d: the market-cap field's
\* formatting raises or the block is returned.
InfoBlock(ticker, d, cap) ==
    IF cap.kind = "raise" THEN cap
    ELSE Returned(StockInformation(ticker, d, cap.value))

\* The try block of read_stock_resource; i is what stock.info does.
ReadStockResourceTry(ticker, i) ==
    IF i.kind = "raise" THEN Raised("UpstreamError", i.msg)
    ELSE InfoBlock(ticker, i.dict, FormatComma(InfoGet(i.dict, "marketCap")))

ErrorFetchingResourceMsg(m) == [fmt |-> "Error fetching stock resource: {}", with |-> m]

\* An except clause that catches nothing of what formatting raises.
ReadStockResourceExceptUpstreamOnly(r) ==
    IF r.kind = "raise" /\ r.exc = "UpstreamError"
    THEN Returned(ErrorFetchingResourceMsg(r.value))
    ELSE r

\* read_stock_resource's except clause applied to how its try block ended.
ReadStockResourceExcept(r) ==
    IF r.kind = "raise" /\ HandlerCatches(r.exc)
    THEN Returned(ErrorFetchingResourceMsg(r.value))
    ELSE r

read_stock_resource(ticker, i) == ReadStockResourceExcept(ReadStockResourceTry(ticker, i))

(***************************************************************************)
(* The server: the dispatcher hands one request at a time to a handler and *)
(* sends back what the handler returned.                                   *)
(***************************************************************************)
MaxLen == 2

MaxFigures == 1

Tickers == {"AAPL", "MSFT"}

Names == {"Apple Inc."}

\* The date arguments the callers send: two real dates, a real date of a
\* year below 1000, a month 13, a token of six digits, and a year segment too
\* long for a C int.
DateArgs ==
    { <<"0", "1", "0", "1", "2", "0", "2", "4">>,
      <<"1", "2", "3", "1", "2", "0", "2", "4">>,
      <<"0", "1", "0", "1", "0", "9", "9", "9">>,
      <<"1", "3", "0", "1", "2", "0", "2", "4">>,
      <<"0", "1", "0", "1", "2", "4">>,
      <<"0", "1", "0", "1", "9", "9", "9", "9", "9", "9", "9", "9", "9", "9", "9">> }

\* Daily records the upstream may return, prices in thousandths: a rise whose
\* prices round to the cent, a rise within a wider range, and a record that
\* opens and closes at zero (as the first record of a series it makes the
\* percentage change infinite when a later record closes above zero, and
\* not-a-number when the series closes at zero too).
Bars ==
    { [open |-> 1006, high |-> 2004, low |-> 1006, close |-> 2004, volume |-> 100],
      [open |-> 1000, high |-> 1150, low |-> 950, close |-> 1100, volume |-> 301],
      [open |-> 0, high |-> 1006, low |-> 0, close |-> 0, volume |-> 200] }

Series == UNION { [1..n -> Bars] : n \in 0..MaxLen }

UpstreamErrorMsg == [fmt |-> "the market-data library raised", with |-> <<>>]

HistoryOutcomes ==
    { [kind |-> "series", data |-> d, msg |-> NoErrorMsg] : d \in Series }
        \cup { [kind |-> "raise", data |-> <<>>, msg |-> UpstreamErrorMsg] }

\* Stands for the upstream of a call that never reaches its fetch.
Unreached == [kind |-> "unreached", data |-> <<>>, msg |-> NoErrorMsg]

\* The outcomes to draw for a fetch: none when the handler does not reach it.
Upstream(reached) == IF reached THEN HistoryOutcomes ELSE {Unreached}

RenderOutcomes == {"ok", "figure_raises", "draw_raises"}

Init ==
    /\ strftime_pads_year \in BOOLEAN
    /\ date_str = <<>>
    /\ parsed = Pending
    /\ ServerIdle

\* What every handler leaves behind when it ends as r.
Ended(r) ==
    /\ fetches' = r.fetches
    /\ result' = IF r.out.kind = "return" THEN r.out.value ELSE NoResult
    /\ propagated' = IF r.out.kind = "raise" THEN r.out.exc ELSE "none"
    /\ info' = NotRead

Request(op, ticker, name, start_date, end_date) ==
    [op |-> op, ticker |-> ticker, name |-> name,
     start_date |-> start_date, end_date |-> end_date]

\* Do both date arguments parse, so that the handler goes on to its fetch.
DatesParse(sf, ef) == sf.kind = "return" /\ ef.kind = "return"

\* A get_stock_data request whose date arguments parse_date takes to sf, ef.
GetStockDataRun(ticker, name, start_date, end_date, sf, ef) ==
    \E h \in Upstream(DatesParse(sf, ef)) :
        /\ call' = Request("get_stock_data", ticker, name, start_date, end_date)
        /\ Ended(get_stock_data(ticker, name, sf, ef, h))
        /\ legs' = <<>>
        /\ plotted' = "unreached"

GetStockDataCall ==
    /\ call = NoCall
    /\ \E ticker \in Tickers, name \in Names, start_date \in DateArgs, end_date \in DateArgs :
         GetStockDataRun(ticker, name, start_date, end_date,
                         parse_date(start_date), parse_date(end_date))
    /\ UNCHANGED <<strftime_pads_year, parseVars, figures>>

PlotEnded(r) ==
    /\ Ended(r)
    /\ plotted' = r.render
    /\ figures' = figures + r.opened - r.closed

\* The plotting library is reached when the fetch returns a non-empty series.
Rendering(h) == IF h.kind = "series" /\ h.data # <<>> THEN RenderOutcomes ELSE {"ok"}

PlotStockPriceRun(ticker, name, start_date, end_date, sf, ef) ==
    \E h \in Upstream(DatesParse(sf, ef)) :
        \E render \in Rendering(h) :
            /\ call' = Request("plot_stock_price", ticker, name, start_date, end_date)
            /\ PlotEnded(plot_stock_price(ticker, name, sf, ef, h, render))
            /\ legs' = <<>>

PlotStockPriceCall ==
    /\ call = NoCall
    /\ figures < MaxFigures
    /\ \E ticker \in Tickers, name \in Names, start_date \in DateArgs, end_date \in DateArgs :
         PlotStockPriceRun(ticker, name, start_date, end_date,
                           parse_date(start_date), parse_date(end_date))
    /\ UNCHANGED <<strftime_pads_year, parseVars>>

CompareEnded(r) ==
    /\ Ended(r)
    /\ legs' = r.legs
    /\ plotted' = "unreached"

CompareStocksRun(ticker1, ticker2, start_date, end_date, sf, ef) ==
    \E h1 \in Upstream(DatesParse(sf, ef)), h2 \in Upstream(DatesParse(sf, ef)) :
        /\ call' = [op |-> "compare_stocks", ticker1 |-> ticker1, ticker2 |-> ticker2,
                    start_date |-> start_date, end_date |-> end_date]
        /\ CompareEnded(compare_stocks(ticker1, ticker2, sf, ef, h1, h2))

CompareStocksCall ==
    /\ call = NoCall
    /\ \E ticker1 \in Tickers, ticker2 \in Tickers, start_date \in DateArgs,
          end_date \in DateArgs :
         CompareStocksRun(ticker1, ticker2, start_date, end_date,
                          parse_date(start_date), parse_date(end_date))
    /\ UNCHANGED <<strftime_pads_year, parseVars, figures>>

\* The snapshot fields the resource reader looks up.
SnapshotFields ==
    {"longName", "sector", "industry", "currentPrice", "marketCap",
     "fiftyTwoWeekHigh", "fiftyTwoWeekLow"}

\* Market capitalisations of one, two and three groups of digits.
MarketCaps == {999, 50000, 1234567}

\* The value the upstream gives for a field it has.
SnapshotValue(key, cap) ==
    CASE key = "longName" -> PyStrValue(<<"A", "p", "p", "l", "e">>)
      [] key = "sector" -> PyStrValue(<<"T", "e", "c", "h">>)
      [] key = "industry" -> PyStrValue(<<"P", "h", "o", "n", "e", "s">>)
      [] key = "currentPrice" -> PyIntValue(190)
      [] key = "marketCap" -> PyIntValue(cap)
      [] key = "fiftyTwoWeekHigh" -> PyIntValue(200)
      [] key = "fiftyTwoWeekLow" -> PyIntValue(150)

\* The dictionaries stock.info may be: any subset of the fields present.
InfoDicts ==
    { [key \in present |-> SnapshotValue(key, cap)] :
        present \in SUBSET SnapshotFields, cap \in MarketCaps }

\* stock.info returns a dictionary or raises.
InfoOutcomes ==
    { [kind |-> "dict", dict |-> d, msg |-> NoErrorMsg] : d \in InfoDicts }
        \cup { [kind |-> "raise", dict |-> <<>>, msg |-> UpstreamErrorMsg] }

ReadStockResourceCall ==
    /\ call = NoCall
    /\ \E ticker \in Tickers, i \in InfoOutcomes :
         /\ call' = [op |-> "read_stock_resource", ticker |-> ticker]
         /\ info' = i
         /\ result' = IF read_stock_resource(ticker, i).kind = "return"
                       THEN read_stock_resource(ticker, i).value ELSE NoResult
         /\ propagated' = IF read_stock_resource(ticker, i).kind = "raise"
                           THEN read_stock_resource(ticker, i).exc ELSE "none"
    /\ legs' = <<>>
    /\ fetches' = <<>>
    /\ plotted' = "unreached"
    /\ UNCHANGED <<strftime_pads_year, parseVars, figures>>

\* The dispatcher sends the response and is ready for the next request.
Respond ==
    /\ call # NoCall
    /\ call' = NoCall
    /\ legs' = <<>>
    /\ fetches' = <<>>
    /\ plotted' = "unreached"
    /\ result' = NoResult
    /\ propagated' = "none"
    /\ info' = NotRead
    /\ UNCHANGED <<strftime_pads_year, parseVars, figures>>

Next ==
    \/ GetStockDataCall
    \/ PlotStockPriceCall
    \/ CompareStocksCall
    \/ ReadStockResourceCall
    \/ Respond

Spec == Init /\ [][Next]_vars

(***************************************************************************)
(* Claims about the handlers, checked under Spec.  They read the request   *)
(* (call), what the upstream and the plotting library did (fetches,        *)
(* plotted, legs) and what came back (result, propagated).                 *)
(***************************************************************************)
\* The i-th upstream fetch of the invocation returned a series ...
FetchedSeries(i) == Len(fetches) >= i /\ fetches[i].outcome.kind = "series"

\* ... an empty one ...
FetchedEmpty(i) == FetchedSeries(i) /\ fetches[i].outcome.data = <<>>

\* ... a non-empty one.
FetchedData(i) == FetchedSeries(i) /\ fetches[i].outcome.data # <<>>

\* The i-th upstream fetch raised.
FetchRaised(i) == Len(fetches) >= i /\ fetches[i].outcome.kind = "raise"

NoDataText == "No data found for ticker {} in the specified date range"

\* An error map of get_stock_data: error, ticker and name and nothing else,
\* the ticker and the name being the caller's.
IsErrorMap(d, ticker, name) ==
    /\ DOMAIN d = {"error", "ticker", "name"}
    /\ d.ticker = ticker
    /\ d.name = name

\* C6: when the upstream fetch returns an empty series, get_stock_data returns
\* (does not raise) a map of an error message, the caller's ticker and name and
\* no statistic field, and plot_stock_price returns the 'No data found' text.
C6_EmptySeriesIsNoData ==
    /\ (call.op = "get_stock_data" /\ FetchedEmpty(1))
        => /\ propagated = "none"
           /\ IsErrorMap(result, call.ticker, call.name)
           /\ result.error = [fmt |-> NoDataText, with |-> call.ticker]
    /\ (call.op = "plot_stock_price" /\ FetchedEmpty(1))
        => /\ propagated = "none"
           /\ result = [fmt |-> NoDataText, with |-> call.ticker]

\* C6's case: get_stock_data fetched an empty series and answered with the
\* no-data map.
C6_Witness ==
    /\ call.op = "get_stock_data"
    /\ FetchedEmpty(1)
    /\ IsErrorMap(result, call.ticker, call.name)

\* The same case of plot_stock_price.
PlotNoDataReached ==
    /\ call.op = "plot_stock_price"
    /\ FetchedEmpty(1)
    /\ result = [fmt |-> NoDataText, with |-> call.ticker]

\* A price in thousandths as hundredths, to the nearest.
Cents(x) == [k |-> "fin", v |-> (x + 5) \div 10]

Largest(S) == CHOOSE v \in S : \A w \in S : w <= v

Smallest(S) == CHOOSE v \in S : \A w \in S : v <= w

FieldValues(data, f) == { data[i][f] : i \in 1..Len(data) }

\* The statistics of the series data, but for the two dates.
StatsAreOf(d, data) ==
    /\ "opening_price" \in DOMAIN d
    /\ d.opening_price = Cents(data[1].open)
    /\ d.closing_price = Cents(data[Len(data)].close)
    /\ d.highest_price = Cents(Largest(FieldValues(data, "high")))
    /\ d.lowest_price = Cents(Smallest(FieldValues(data, "low")))
    /\ d.data_points = Len(data)

RealDateToken(s) == EightDigits(s) /\ RealMonthDay(s) /\ TokenYear(s) >= 1

\* C7: for every non-empty series get_stock_data returns the first open, the
\* last close, the maximum high, the minimum low (each to 2 decimals), the
\* number of records, and as start_date and end_date the ISO forms of the two
\* date tokens.
C7_StatsOfSeries ==
    (call.op = "get_stock_data" /\ FetchedData(1)
        /\ RealDateToken(call.start_date) /\ RealDateToken(call.end_date))
    => /\ propagated = "none"
       /\ StatsAreOf(result, fetches[1].outcome.data)
       /\ result.start_date = IsoForm(call.start_date)
       /\ result.end_date = IsoForm(call.end_date)

\* C7 without its dates: the statistics are those of the series, whatever the
\* date tokens that parsed.
StatsFieldsOfSeries ==
    (call.op = "get_stock_data" /\ FetchedData(1))
    => (propagated = "none" /\ StatsAreOf(result, fetches[1].outcome.data))

\* C7's dates from year 1000 on, where strftime writes four digits on every
\* build.
StatsDatesFrom1000 ==
    (call.op = "get_stock_data" /\ FetchedData(1)
        /\ RealDateToken(call.start_date) /\ TokenYear(call.start_date) >= 1000
        /\ RealDateToken(call.end_date) /\ TokenYear(call.end_date) >= 1000)
    => /\ result.start_date = IsoForm(call.start_date)
       /\ result.end_date = IsoForm(call.end_date)

\* Something raised inside the invocation: a parse_date call, the upstream
\* fetch, or the plotting library.
DateParsingRaised ==
    \/ parse_date(call.start_date).kind = "raise"
    \/ parse_date(call.end_date).kind = "raise"

SomethingRaised ==
    /\ call # NoCall
    /\ \/ DateParsingRaised
       \/ \E i \in 1..Len(fetches) : FetchRaised(i)
       \/ plotted \in {"figure_raises", "draw_raises"}

\* C8: whenever date parsing, the upstream fetch or the plot rendering raises
\* in get_stock_data, plot_stock_price or compare_stocks, the operation returns
\* an error value and no exception reaches the dispatcher; get_stock_data's
\* error map carries the caller's ticker and name.
C8_FailuresBecomeErrorValues ==
    /\ propagated = "none"
    /\ (call.op = "get_stock_data" /\ SomethingRaised)
        => /\ IsErrorMap(result, call.ticker, call.name)
           /\ result.error.fmt = "Failed to fetch data: {}"
    /\ (call.op = "plot_stock_price" /\ SomethingRaised)
        => /\ DOMAIN result = {"fmt", "with"}
           /\ result.fmt = "Failed to create plot: {}"
    /\ (call.op = "compare_stocks" /\ SomethingRaised)
        => "error" \in DOMAIN result

\* C8's case: a date argument whose year does not fit a C int made parse_date
\* raise OverflowError inside get_stock_data, and the error map came back.
C8_Witness ==
    /\ call.op = "get_stock_data"
    /\ parse_date(call.start_date).kind = "raise"
    /\ parse_date(call.start_date).exc = "OverflowError"
    /\ IsErrorMap(result, call.ticker, call.name)

\* The same for the other sources: the upstream raised in compare_stocks, the
\* plotting library raised in plot_stock_price.
UpstreamRaisedInCompareReached ==
    call.op = "compare_stocks" /\ FetchRaised(2) /\ "error" \in DOMAIN result

RenderRaisedInPlotReached ==
    /\ call.op = "plot_stock_price"
    /\ plotted = "draw_raises"
    /\ result.fmt = "Failed to create plot: {}"

\* The i-th leg of compare_stocks returned an error result.
LegFailed(i) ==
    /\ Len(legs) >= i
    /\ legs[i].out.kind = "return"
    /\ "error" \in DOMAIN legs[i].out.value

\* C9: whenever a leg of compare_stocks yields an error result, compare_stocks
\* returns a map with exactly the keys error, stock1_error and stock2_error:
\* nothing of the succeeding leg's numbers is returned.
C9_CombinedErrorOnly ==
    (call.op = "compare_stocks" /\ (LegFailed(1) \/ LegFailed(2)))
    => /\ propagated = "none"
       /\ DOMAIN result = {"error", "stock1_error", "stock2_error"}

\* C9's case: the first leg succeeded, the second found no data, and the
\* combined error came back.
C9_Witness ==
    /\ call.op = "compare_stocks"
    /\ FetchedData(1)
    /\ ~LegFailed(1)
    /\ FetchedEmpty(2)
    /\ LegFailed(2)
    /\ DOMAIN result = {"error", "stock1_error", "stock2_error"}

TickerOfLeg(i) == IF i = 1 THEN call.ticker1 ELSE call.ticker2

\* The error message a leg owes to what happened in it: the date that did not
\* parse, its own fetch that raised, or its own empty series.
OwnErrorOfLeg(i) ==
    IF parse_date(call.start_date).kind = "raise"
    THEN [fmt |-> "Failed to fetch data: {}", with |-> parse_date(call.start_date).value]
    ELSE IF parse_date(call.end_date).kind = "raise"
    THEN [fmt |-> "Failed to fetch data: {}", with |-> parse_date(call.end_date).value]
    ELSE IF fetches[i].outcome.kind = "raise"
    THEN [fmt |-> "Failed to fetch data: {}", with |-> fetches[i].outcome.msg]
    ELSE [fmt |-> NoDataText, with |-> TickerOfLeg(i)]

ErrorSlotOfLeg(i) == IF i = 1 THEN result.stock1_error ELSE result.stock2_error

\* C10: compare_stocks always evaluates the second leg, and in the combined
\* error result each of stock1_error and stock2_error is that leg's own error
\* message exactly when that leg failed (and 'No error' when it did not).
C10_BothLegsReported ==
    call.op = "compare_stocks"
    => /\ Len(legs) = 2
       /\ \A i \in {1, 2} : legs[i].ticker = TickerOfLeg(i)
       /\ DatesParse(parse_date(call.start_date), parse_date(call.end_date))
            => /\ Len(fetches) = 2
               /\ \A i \in {1, 2} : fetches[i].ticker = TickerOfLeg(i)
       /\ "stock1_error" \in DOMAIN result
            => \A i \in {1, 2} :
                 /\ LegFailed(i) => ErrorSlotOfLeg(i) = OwnErrorOfLeg(i)
                 /\ ~LegFailed(i) => ErrorSlotOfLeg(i).fmt = "No error"

\* C10's case: the first leg's fetch raised, the second leg was still fetched
\* and found no data, and each slot holds its own leg's message.
C10_Witness ==
    /\ call.op = "compare_stocks"
    /\ call.ticker1 # call.ticker2
    /\ FetchRaised(1)
    /\ FetchedEmpty(2)
    /\ result.stock1_error.fmt = "Failed to fetch data: {}"
    /\ result.stock2_error = [fmt |-> NoDataText, with |-> call.ticker2]

\* The i-th leg of compare_stocks returned a stats dictionary.
LegSucceeded(i) ==
    /\ Len(legs) >= i
    /\ legs[i].out.kind = "return"
    /\ "error" \notin DOMAIN legs[i].out.value

BothLegsSucceeded == call.op = "compare_stocks" /\ LegSucceeded(1) /\ LegSucceeded(2)

\* The percentage change the i-th leg returned.
PctOfLeg(i) == legs[i].out.value.percentage_change

\* The place of a float on the line: the infinities lie beyond every finite
\* value.
Rank(a) == IF a.k = "inf" THEN a.v * 100000000 ELSE a.v

\* a is strictly greater than b; not-a-number is greater than nothing and
\* nothing is greater than it.
Exceeds(a, b) == a.k # "nan" /\ b.k # "nan" /\ Rank(a) > Rank(b)

\* C11: when both legs of compare_stocks succeed, better_performer is ticker1
\* if and only if the first leg's percentage_change is strictly greater than
\* the second's; in every other case, a tie included, it is ticker2.
C11_BetterPerformer ==
    BothLegsSucceeded
    => /\ propagated = "none"
       /\ "better_performer" \in DOMAIN result
       /\ result.better_performer =
            IF Exceeds(PctOfLeg(1), PctOfLeg(2)) THEN call.ticker1 ELSE call.ticker2

\* C11's case: two different tickers with the same finite percentage change,
\* and the second is named.
C11_Witness ==
    /\ BothLegsSucceeded
    /\ call.ticker1 # call.ticker2
    /\ PctOfLeg(1).k = "fin"
    /\ PctOfLeg(1) = PctOfLeg(2)
    /\ result.better_performer = call.ticker2

\* The other cases: the first ticker wins with the greater finite change, and
\* a not-a-number change on the first leg names the second ticker.
FirstTickerWinsReached ==
    /\ BothLegsSucceeded
    /\ call.ticker1 # call.ticker2
    /\ PctOfLeg(1).k = "fin" /\ PctOfLeg(2).k = "fin"
    /\ PctOfLeg(1).v > PctOfLeg(2).v
    /\ result.better_performer = call.ticker1

NaNLegNamesSecondReached ==
    /\ BothLegsSucceeded
    /\ call.ticker1 # call.ticker2
    /\ PctOfLeg(1).k = "nan" /\ PctOfLeg(2).k = "fin"
    /\ result.better_performer = call.ticker2

\* |a - b| on floats that hold hundredths, as IEEE arithmetic gives it.
AbsGap(a, b) ==
    IF a.k = "nan" \/ b.k = "nan" THEN [k |-> "nan", v |-> 0]
    ELSE IF a.k = "fin" /\ b.k = "fin"
    THEN [k |-> "fin", v |-> IF a.v >= b.v THEN a.v - b.v ELSE b.v - a.v]
    ELSE IF a.k = "inf" /\ b.k = "inf" /\ a.v = b.v THEN [k |-> "nan", v |-> 0]
    ELSE [k |-> "inf", v |-> 1]

\* a == b on floats: not-a-number equals nothing.
SameNumber(a, b) == a.k # "nan" /\ a = b

NotNegative(a) == a.k # "nan" /\ a.v >= 0

\* C12: when both legs of compare_stocks succeed, performance_difference is
\* the absolute value of the difference of the two percentage changes to 2
\* decimals: never negative, 0 exactly on a tie, and the value the swapped
\* comparison gives.
C12_PerformanceDifference ==
    BothLegsSucceeded
    => /\ "performance_difference" \in DOMAIN result
       /\ result.performance_difference = AbsGap(PctOfLeg(1), PctOfLeg(2))
       /\ NotNegative(result.performance_difference)
       /\ SameNumber(PctOfLeg(1), PctOfLeg(2))
            <=> result.performance_difference = [k |-> "fin", v |-> 0]
       /\ result.performance_difference =
            Verdict(call.ticker2, call.ticker1, PctOfLeg(2), PctOfLeg(1)).performance_difference

\* C12 for finite percentage changes, where it holds.
GapOfFinitePercentages ==
    (BothLegsSucceeded /\ PctOfLeg(1).k = "fin" /\ PctOfLeg(2).k = "fin")
    => /\ result.performance_difference = AbsGap(PctOfLeg(1), PctOfLeg(2))
       /\ result.performance_difference.k = "fin"
       /\ result.performance_difference.v >= 0
       /\ PctOfLeg(1) = PctOfLeg(2) <=> result.performance_difference.v = 0
       /\ result.performance_difference =
            Verdict(call.ticker2, call.ticker1, PctOfLeg(2), PctOfLeg(1)).performance_difference

\* Both legs' series open at zero and close above it: the two percentage
\* changes are the same infinity and their difference is not a number.
InfiniteTieReached ==
    /\ BothLegsSucceeded
    /\ PctOfLeg(1) = [k |-> "inf", v |-> 1]
    /\ PctOfLeg(2) = [k |-> "inf", v |-> 1]
    /\ result.performance_difference.k = "nan"

\* The three beginnings of a plot_stock_price result, as the texts' templates.
DataUriText == "data:image/png;base64,{}"

FailedToPlotText == "Failed to create plot: {}"

\* The image was made: both dates parsed, the series fetched was not empty,
\* and the plotting calls up to the encoding completed.
ImageMade ==
    /\ DatesParse(parse_date(call.start_date), parse_date(call.end_date))
    /\ FetchedData(1)
    /\ plotted = "ok"

\* C13: every plot_stock_price result is a text of exactly one of three
\* shapes, the data URI, the 'No data found' text or the 'Failed to create
\* plot: ' text, and it is the data URI only when both dates parsed, the
\* series was not empty and the rendering and encoding completed.
C13_PlotResultShapes ==
    call.op = "plot_stock_price"
    => /\ propagated = "none"
       /\ DOMAIN result = {"fmt", "with"}
       /\ result.fmt \in {DataUriText, NoDataText, FailedToPlotText}
       /\ result.fmt = DataUriText <=> ImageMade
       /\ result.fmt = NoDataText <=> FetchedEmpty(1)
       /\ result.fmt = FailedToPlotText <=> SomethingRaised

\* C13's case: the image came back as a data URI.
C13_Witness ==
    /\ call.op = "plot_stock_price"
    /\ ImageMade
    /\ result.fmt = DataUriText

\* The failure shape for a date that does not parse.
PlotBadDateReached ==
    /\ call.op = "plot_stock_price"
    /\ DateParsingRaised
    /\ fetches = <<>>
    /\ result.fmt = FailedToPlotText

(***************************************************************************)
(* Claims about read_stock_resource, checked under Spec.  They read the    *)
(* request (call), what stock.info did (info) and what came back.          *)
(***************************************************************************)
\* read_stock_resource ran and stock.info gave it a dictionary.
SnapshotRead == call.op = "read_stock_resource" /\ info.kind = "dict"

\* The place of a snapshot field in the block.
SlotOf(key) ==
    CASE key = "longName" -> "company_name"
      [] key = "sector" -> "sector"
      [] key = "industry" -> "industry"
      [] key = "currentPrice" -> "current_price"
      [] key = "marketCap" -> "market_cap"
      [] key = "fiftyTwoWeekHigh" -> "week52_high"
      [] key = "fiftyTwoWeekLow" -> "week52_low"

\* A text without its commas.
RECURSIVE WithoutCommas(_)
WithoutCommas(s) ==
    IF s = <<>> THEN <<>>
    ELSE IF Head(s) = "," THEN WithoutCommas(Tail(s))
    ELSE <<Head(s)>> \o WithoutCommas(Tail(s))

\* The text of a value of the upstream dictionary: a str as it is, a number
\* in decimal digits.
ValueText(x) == IF x.t = "int" THEN Decimal(x.v) ELSE x.v

\* The result is the 'Stock Information' block for the request's ticker ...
IsInformationBlock ==
    /\ DOMAIN result = {"fmt", "with"}
    /\ DOMAIN result.with =
         {"ticker", "company_name", "sector", "industry", "current_price",
          "market_cap", "week52_high", "week52_low"}
    /\ result.with.ticker = call.ticker

\* ... with, in the place of every field, N/A when the field is absent from
\* the upstream dictionary and its value when it is present.
SlotsFilled ==
    \A key \in SnapshotFields :
        IF key \in DOMAIN info.dict
        THEN WithoutCommas(result.with[SlotOf(key)]) = ValueText(info.dict[key])
        ELSE result.with[SlotOf(key)] = <<"N", "/", "A">>

\* C14: for every subset of the snapshot fields absent from the upstream
\* info, read_stock_resource returns the 'Stock Information' block with N/A in
\* the place of each absent field and the value in the place of each present
\* field.
C14_PlaceholdersForAbsent ==
    SnapshotRead => (propagated = "none" /\ IsInformationBlock /\ SlotsFilled)

\* C14 when the upstream dictionary has a marketCap: the block is returned,
\* with N/A for every other field that is absent.
PlaceholdersWithMarketCap ==
    (SnapshotRead /\ "marketCap" \in DOMAIN info.dict)
    => (propagated = "none" /\ IsInformationBlock /\ SlotsFilled)

\* Without a marketCap the result is the error text and no block.
ErrorWithoutMarketCap ==
    (SnapshotRead /\ "marketCap" \notin DOMAIN info.dict)
    => result = [fmt |-> "Error fetching stock resource: {}",
                 with |-> [fmt |-> "Cannot specify ',' with 's'.", with |-> <<>>]]

\* A block with placeholders is returned: marketCap is present, grouped in
\* threes, and the company name is absent.
BlockWithPlaceholderReached ==
    /\ SnapshotRead
    /\ DOMAIN info.dict = {"marketCap", "sector"}
    /\ IsInformationBlock
    /\ result.with.company_name = <<"N", "/", "A">>
    /\ result.with.market_cap = <<"1", ",", "2", "3", "4", ",", "5", "6", "7">>

\* Only the marketCap is absent, and the error text comes back.
OnlyMarketCapAbsentReached ==
    /\ SnapshotRead
    /\ DOMAIN info.dict = SnapshotFields \ {"marketCap"}
    /\ result.fmt = "Error fetching stock resource: {}"

\* Fetching the snapshot or formatting the block failed: stock.info raised,
\* or the market-cap field had no number to group.
SnapshotFailed ==
    \/ info.kind = "raise"
    \/ info.kind = "dict" /\ "marketCap" \notin DOMAIN info.dict

\* C15: read_stock_resource always returns a text and never raises to its
\* caller; when fetching the snapshot or formatting the block fails, the text
\* is 'Error fetching stock resource: ...'.
C15_ResourceNeverRaises ==
    call.op = "read_stock_resource"
    => /\ propagated = "none"
       /\ DOMAIN result = {"fmt", "with"}
       /\ SnapshotFailed <=> result.fmt = "Error fetching stock resource: {}"

\* C15's case: stock.info raised and the error text carries its message.
C15_Witness ==
    /\ call.op = "read_stock_resource"
    /\ info.kind = "raise"
    /\ propagated = "none"
    /\ result = [fmt |-> "Error fetching stock resource: {}", with |-> info.msg]

(***************************************************************************)
(* Claims about the numbers of get_stock_data, checked under Spec.         *)
(***************************************************************************)
\* get_stock_data returned a stats dictionary.
StatsReturned == call.op = "get_stock_data" /\ "price_change" \in DOMAIN result

\* C16: in every stats dictionary get_stock_data returns, price_change equals
\* closing_price minus opening_price, all three being the 2-decimal values of
\* that dictionary.
C16_PriceChangeOfReturned ==
    StatsReturned
    => result.price_change.v = result.closing_price.v - result.opening_price.v

\* What price_change is: the difference of the last close and the first open
\* of the series, rounded to 2 decimals after the subtraction.
PriceChangeOfSeries ==
    StatsReturned
    => result.price_change =
         Cents(fetches[1].outcome.data[Len(fetches[1].outcome.data)].close
                 - fetches[1].outcome.data[1].open)

\* It is within a cent of the difference of the two returned prices.
PriceChangeWithinACent ==
    StatsReturned
    => /\ result.price_change.v - (result.closing_price.v - result.opening_price.v) <= 1
       /\ (result.closing_price.v - result.opening_price.v) - result.price_change.v <= 1

\* The series opens at 1.006 and closes at 2.004: the returned prices are 1.01
\* and 2.00, and price_change is 1.00.
CentApartReached ==
    /\ StatsReturned
    /\ result.opening_price.v = 101
    /\ result.closing_price.v = 200
    /\ result.price_change.v = 100

\* The series get_stock_data fetched is not empty and its first record opens
\* at exactly 0.
OpensAtZero ==
    /\ call.op = "get_stock_data"
    /\ FetchedData(1)
    /\ fetches[1].outcome.data[1].open = 0

\* C17: when the first record's open is exactly 0, get_stock_data returns the
\* error map and never a stats dictionary whose percentage_change is infinite
\* or not-a-number.
C17_ZeroOpenIsError ==
    OpensAtZero
    => /\ propagated = "none"
       /\ IsErrorMap(result, call.ticker, call.name)

\* What the code does instead: it returns the stats dictionary with an
\* infinite or not-a-number percentage_change.
ZeroOpenGivesUndefinedNumber ==
    OpensAtZero
    => /\ "percentage_change" \in DOMAIN result
       /\ result.percentage_change.k \in {"inf", "nan"}

\* With a first open other than 0 the percentage_change is finite.
NonZeroOpenGivesFinite ==
    (StatsReturned /\ fetches[1].outcome.data[1].open # 0)
    => result.percentage_change.k = "fin"

InfinitePercentageReached ==
    OpensAtZero /\ StatsReturned /\ result.percentage_change.k = "inf"

NaNPercentageReached ==
    OpensAtZero /\ StatsReturned /\ result.percentage_change.k = "nan"

(***************************************************************************)
(* Claims about the order of parsing and fetching, and about the figures,  *)
(* checked under Spec.                                                     *)
(***************************************************************************)
DatedOps == {"get_stock_data", "plot_stock_price", "compare_stocks"}

\* A date argument that is not a valid date token.
InvalidToken(s) == ~RealDateToken(s)

\* The first of the request's two date arguments that is not valid.
FirstInvalidDate ==
    IF InvalidToken(call.start_date) THEN call.start_date ELSE call.end_date

InvalidDateGiven ==
    /\ call.op \in DatedOps
    /\ InvalidToken(call.start_date) \/ InvalidToken(call.end_date)

InvalidDateText(s) ==
    [fmt |-> "Invalid date format: {}. Expected mmddyyyy format.", with |-> s]

\* C18: with a start_date or end_date that is not a valid token, the
\* invocation issues no upstream fetch (compare_stocks none for either leg),
\* and get_stock_data and plot_stock_price return the error value naming the
\* invalid date.
C18_NoFetchOnInvalidDate ==
    InvalidDateGiven
    => /\ fetches = <<>>
       /\ call.op = "get_stock_data"
            => /\ IsErrorMap(result, call.ticker, call.name)
               /\ result.error = [fmt |-> "Failed to fetch data: {}",
                                   with |-> InvalidDateText(FirstInvalidDate)]
       /\ call.op = "plot_stock_price"
            => result = [fmt |-> "Failed to create plot: {}",
                         with |-> InvalidDateText(FirstInvalidDate)]

\* The order itself: when one of the two parse_date calls raises, no fetch has
\* been issued.
NoFetchWhenParsingRaises ==
    (call.op \in DatedOps /\ DateParsingRaised) => fetches = <<>>

\* A token of six digits went through: the fetch was issued with the date
\* parse_date made of it.
FetchOnSixDigitsReached ==
    /\ call.op = "get_stock_data"
    /\ Len(call.start_date) = 6
    /\ Len(fetches) = 1
    /\ fetches[1].start = parse_date(call.start_date).value

\* The end date raises after the start date parsed: no fetch.
NoFetchOnBadEndDateReached ==
    /\ call.op = "get_stock_data"
    /\ RealDateToken(call.start_date)
    /\ parse_date(call.end_date).kind = "raise"
    /\ fetches = <<>>
    /\ "error" \in DOMAIN result

\* C19: after any sequence of tool invocations every figure plot_stock_price
\* opened has been closed before it returned: the plotting library holds no
\* open figure, as before the sequence, on the success, no-data and failure
\* paths alike.
C19_NoFigureLeftOpen == figures = 0

\* The paths on which it is so: every invocation but a plot_stock_price in
\* which a call between plt.figure and plt.close raised leaves the number of
\* open figures as it found it.
FiguresKeptUnlessDrawingRaises ==
    [][plotted' # "draw_raises" => figures' = figures]_vars

\* A plot_stock_price invocation whose drawing raised returned the failure
\* text and left its figure open.
FigureLeftOpenReached ==
    /\ call.op = "plot_stock_price"
    /\ plotted = "draw_raises"
    /\ result.fmt = "Failed to create plot: {}"
    /\ figures = 1
====
